---- MODULE Spec2Model ----
(***************************************************************************)
(* A model of github.com/speijnik/go-errortree: the Tree error container,  *)
(* the mutation functions Set and Add, and the traversals Flatten, Keys,   *)
(* Get, GetAny and Tree.Error.                                             *)
(*                                                                         *)
(* Strings are sequences of one-character strings, so that the key joins   *)
(* of flatten (key + delimiter + childKey) are real concatenations.        *)
(* Error values are nil, a leaf error (errors.New) or a non-nil *Tree.     *)
(* Trees live in a heap, a sequence of Tree structs addressed by index,    *)
(* so that tree identity (pointer equality) is index equality.             *)
(***************************************************************************)
EXTENDS Integers, Sequences, FiniteSets, Bags, TLC

\* ------------------------------------------------------------------ bounds

\* The largest number of allocating or mutating calls in one run. Each
\* allocates at most one Tree, so it bounds the number of trees as well.
MaxOps == 3

\* The largest number of path elements passed to Get and GetAny after key.
MaxPath == 1

\* ----------------------------------------------------------------- strings

DefaultDelimiter == <<":">>

\* The keys callers use. The second contains the default delimiter, so it is
\* also what joining "a" and "a" with that delimiter gives.
KeyUniverse == {<<"a">>, <<"a", ":", "a">>}

\* The values a Tree literal gives its Delimiter field (empty: left unset).
Delimiters == {<< >>, <<".">>}

\* The byte value of a character, as sort.Strings compares them.
Code(c) ==
  CASE c = "\n" -> 10
    [] c = " " -> 32
    [] c = "*" -> 42
    [] c = "." -> 46
    [] c = "0" -> 48
    [] c = "1" -> 49
    [] c = "2" -> 50
    [] c = "3" -> 51
    [] c = "4" -> 52
    [] c = "5" -> 53
    [] c = "6" -> 54
    [] c = "7" -> 55
    [] c = "8" -> 56
    [] c = "9" -> 57
    [] c = ":" -> 58
    [] c = "a" -> 97
    [] c = "b" -> 98
    [] c = "c" -> 99
    [] c = "d" -> 100
    [] c = "e" -> 101
    [] c = "o" -> 111
    [] c = "r" -> 114
    [] c = "s" -> 115
    [] c = "t" -> 116
    [] c = "u" -> 117
    [] OTHER -> 127

\* Go's s < t on strings: bytewise lexicographic order.
RECURSIVE StrLess(_, _)
StrLess(s, t) ==
  IF Len(t) = 0 THEN FALSE
  ELSE IF Len(s) = 0 THEN TRUE
  ELSE IF Code(Head(s)) # Code(Head(t)) THEN Code(Head(s)) < Code(Head(t))
  ELSE StrLess(Tail(s), Tail(t))

\* ------------------------------------------------------------ error values

\* The nil error interface value.
Nil == [kind |-> "nil", id |-> 0]

\* The leaf errors callers create with errors.New, by identity.
LeafIds == {1, 2}

Leaf(i) == [kind |-> "leaf", id |-> i]

\* A non-nil *Tree stored in an error interface value.
TreeV(t) == [kind |-> "tree", id |-> t]

\* err.Error() of a leaf error.
Message(e) == IF e.id = 1 THEN <<"t", "0">> ELSE <<"t", "1">>

\* GetTree: the type assertion err.(*Tree).
GetTree(err) == [tree |-> IF err.kind = "tree" THEN err.id ELSE 0,
                 isTree |-> err.kind = "tree"]

\* A map[string]error with no entries.
EmptyMap == [k \in {} |-> Nil]

\* Put as a slip would have it: the map is replaced, not updated.
PutReplacingMap(m, k, v) == [x \in {k} |-> v]

\* m[k] = v on a Go map.
Put(m, k, v) == [x \in (DOMAIN m) \cup {k} |-> IF x = k THEN v ELSE m[x]]

\* -------------------------------------------------------------------- Tree

\* Formatter field values: unset, or the SimpleFormatter function.
NoFormatter == "nil"
SimpleFormatterRef == "SimpleFormatter"

\* New(): the struct a fresh tree starts with.
New == [Errors |-> EmptyMap, ErrorsIsNil |-> FALSE,
        Delimiter |-> DefaultDelimiter, Formatter |-> SimpleFormatterRef]

\* &Tree{Delimiter: d}: a literal, Errors and Formatter left at their zero value.
ZeroTree(d) == [Errors |-> EmptyMap, ErrorsIsNil |-> TRUE,
                Delimiter |-> d, Formatter |-> NoFormatter]

\* (*Tree).getErrors: the heap after the lazy initialisation of t.Errors.
getErrors(h, t) ==
  IF h[t].ErrorsIsNil THEN [h EXCEPT ![t].ErrorsIsNil = FALSE] ELSE h

\* (*Tree).getDelimiter: the heap after the lazy initialisation of t.Delimiter.
getDelimiter(h, t) ==
  IF h[t].Delimiter = << >> THEN [h EXCEPT ![t].Delimiter = DefaultDelimiter] ELSE h

\* (*Tree).getFormatter: the heap after the lazy initialisation of t.Formatter.
getFormatter(h, t) ==
  IF h[t].Formatter = NoFormatter THEN [h EXCEPT ![t].Formatter = SimpleFormatterRef] ELSE h

\* ------------------------------------------------------------------- state

VARIABLES heap, last, ops

vars == <<heap, last, ops>>

\* The trees allocated so far.
Trees == 1..Len(heap)

\* The error values a caller can hold.
Values == {Nil} \cup {Leaf(i) : i \in LeafIds} \cup {TreeV(t) : t \in Trees}

\* No panic in flight.
NoPanic == << >>

\* panic("Cannot set error: not an *errortree.Tree.")
SetPanic ==
  <<"C","a","n","n","o","t"," ","s","e","t"," ","e","r","r","o","r",":"," ",
    "n","o","t"," ","a","n"," ","*","e","r","r","o","r","t","r","e","e",".",
    "T","r","e","e",".">>

\* panic("Cannot add error: key " + key + " exists.")
AddPanic(key) ==
  <<"C","a","n","n","o","t"," ","a","d","d"," ","e","r","r","o","r",":"," ",
    "k","e","y"," ">> \o key \o <<" ","e","x","i","s","t","s",".">>

\* The record of the last call: its arguments and what it returned.
Call(op, arg, key, path, err) ==
  [op |-> op, arg |-> arg, key |-> key, path |-> path, err |-> err,
   ret |-> Nil, panic |-> NoPanic, fatal |-> FALSE, isNil |-> FALSE,
   flat |-> EmptyMap, keys |-> << >>, text |-> << >>, entered |-> EmptyBag]

\* No call is in progress: the caller has taken the last result.
Idle == Call("none", Nil, << >>, << >>, Nil)

Init ==
  /\ heap = << >>
  /\ last = Idle
  /\ ops = 0

\* The call returns: the caller takes its result (or recovers its panic) and
\* is free to make the next call.
Return ==
  /\ last # Idle
  /\ last' = Idle
  /\ UNCHANGED <<heap, ops>>

\* ---------------------------------------------------------------- mutation

\* set without its err == nil test.
setWithoutNilTest(h, tree, key, err) ==
  LET h0 == IF tree = 0 THEN Append(h, New) ELSE h
      t == IF tree = 0 THEN Len(h0) ELSE tree
      h1 == getErrors(h0, t)
  IN [h |-> [h1 EXCEPT ![t].Errors = Put(@, key, err)], tree |-> t]

\* set with its err == nil test applied to a nil tree only.
setNilTestOnNilTree(h, tree, key, err) ==
  IF err = Nil /\ tree = 0 THEN [h |-> h, tree |-> tree]
  ELSE LET h0 == IF tree = 0 THEN Append(h, New) ELSE h
           t == IF tree = 0 THEN Len(h0) ELSE tree
           h1 == getErrors(h0, t)
       IN [h |-> [h1 EXCEPT ![t].Errors = Put(@, key, err)], tree |-> t]

\* set: the heap and the tree (0: nil) after set(tree, key, err).
set(h, tree, key, err) ==
  IF err = Nil THEN [h |-> h, tree |-> tree]
  ELSE LET h0 == IF tree = 0 THEN Append(h, New) ELSE h
           t == IF tree = 0 THEN Len(h0) ELSE tree
           h1 == getErrors(h0, t)
       IN [h |-> [h1 EXCEPT ![t].Errors = Put(@, key, err)], tree |-> t]

\* The error interface value Set and Add return for a *Tree (0: nil).
AsError(tree) == IF tree # 0 THEN TreeV(tree) ELSE Nil

\* Set(parent, key, err)
Set(parent, key, err) ==
  /\ last = Idle
  /\ ops < MaxOps
  /\ ops' = ops + 1
  /\ LET g == GetTree(parent)
         c == Call("Set", parent, key, << >>, err)
     IN IF parent # Nil /\ ~g.isTree
        THEN /\ last' = [c EXCEPT !.panic = SetPanic]
             /\ heap' = heap
        ELSE LET r == set(heap, g.tree, key, err)
             IN /\ heap' = r.h
                /\ last' = [c EXCEPT !.ret = AsError(r.tree)]

\* Add without its test for an existing key.
AddWithoutKeyTest(parent, key, err) ==
  /\ last = Idle
  /\ ops < MaxOps
  /\ ops' = ops + 1
  /\ LET r == set(heap, GetTree(parent).tree, key, err)
     IN /\ heap' = r.h
        /\ last' = [Call("Add", parent, key, << >>, err) EXCEPT !.ret = AsError(r.tree)]

\* Add(parent, key, err)
Add(parent, key, err) ==
  /\ last = Idle
  /\ ops < MaxOps
  /\ ops' = ops + 1
  /\ LET g == GetTree(parent)
         c == Call("Add", parent, key, << >>, err)
         h1 == IF g.tree # 0 /\ g.isTree THEN getErrors(heap, g.tree) ELSE heap
     IN IF g.tree # 0 /\ g.isTree /\ key \in DOMAIN h1[g.tree].Errors
        THEN /\ last' = [c EXCEPT !.panic = AddPanic(key)]
             /\ heap' = h1
        ELSE LET r == set(h1, g.tree, key, err)
             IN /\ heap' = r.h
                /\ last' = [c EXCEPT !.ret = AsError(r.tree)]

\* A caller's tree := New()
NewTree ==
  /\ last = Idle
  /\ ops < MaxOps
  /\ ops' = ops + 1
  /\ heap' = Append(heap, New)
  /\ last' = [Call("New", Nil, << >>, << >>, Nil) EXCEPT !.ret = TreeV(Len(heap) + 1)]

\* A caller's tree := &Tree{Delimiter: d}
Literal(d) ==
  /\ last = Idle
  /\ ops < MaxOps
  /\ ops' = ops + 1
  /\ heap' = Append(heap, ZeroTree(d))
  /\ last' = [Call("Literal", Nil, << >>, << >>, Nil) EXCEPT !.ret = TreeV(Len(heap) + 1)]

\* --------------------------------------------------------------- traversal

\* A chain of nested flatten calls longer than this holds some tree twice and,
\* re-entering it, never ends: the goroutine stack overflows, which is fatal.
StackLimit(h) == Len(h) + 2

\* One possible result of a flatten call: the map it returns, the heap it
\* leaves, whether it overflowed the stack instead of returning, and the bag
\* of the trees whose children it and its nested calls have ranged over.
Outcome(h, m, fatal, entered) ==
  [h |-> h, m |-> m, fatal |-> fatal, entered |-> entered]

\* An outcome with the trees another call has entered added to its own.
AlsoEntered(o, entered) == [o EXCEPT !.entered = @ (+) entered]

\* JoinKey with the package's default delimiter in place of the one passed down.
JoinKeyDefaultDelimiter(key, delimiter, childKey) == key \o DefaultDelimiter \o childKey

\* key + delimiter + childKey
JoinKey(key, delimiter, childKey) == key \o delimiter \o childKey

\* for childKey, childErr := range child { errorMap[key+delimiter+childKey] = childErr }
MergeChild(errorMap, key, delimiter, child) ==
  LET added == {JoinKey(key, delimiter, ck) : ck \in DOMAIN child}
      src(x) == CHOOSE ck \in DOMAIN child : JoinKey(key, delimiter, ck) = x
  IN [x \in (DOMAIN errorMap) \cup added |->
        IF x \in added THEN child[src(x)] ELSE errorMap[x]]

\* IsVisited looking at the caller only, not at the whole slice.
IsVisitedLastOnly(tree, visited) == Len(visited) > 0 /\ visited[Len(visited)] = tree

\* IsVisited with the first element of the slice, the root, left out.
IsVisitedBelowRoot(tree, visited) == \E i \in 2..Len(visited) : visited[i] = tree

\* Whether flatten finds tree in its visited slice.
IsVisited(tree, visited) == \E i \in 1..Len(visited) : visited[i] = tree

\* flatten(tree, delimiter, visited): every outcome the map iteration order
\* allows. The range loop over errors takes the keys in any order;
\* flattenRange is the loop with the keys in `remaining` still to come.
\* keyPrefix is left out: the code passes it down and never reads it.
RECURSIVE flatten(_, _, _, _), flattenRange(_, _, _, _, _, _)
flatten(h, tree, delimiter, visited) ==
  IF Len(visited) >= StackLimit(h) THEN {Outcome(h, EmptyMap, TRUE, EmptyBag)}
  ELSE IF IsVisited(tree, visited) THEN {Outcome(h, EmptyMap, FALSE, EmptyBag)}
  ELSE LET h1 == getErrors(h, tree)
       IN { AlsoEntered(o, SetToBag({tree})) :
            o \in flattenRange(h1, h1[tree].Errors, DOMAIN h1[tree].Errors, delimiter,
                               Append(visited, tree), EmptyMap) }

flattenRange(h, errors, remaining, delimiter, visited, errorMap) ==
  IF remaining = {} THEN {Outcome(h, errorMap, FALSE, EmptyBag)}
  ELSE UNION {
    LET err == errors[key]
        rest == remaining \ {key}
    IN IF GetTree(err).isTree
       THEN UNION {
              IF c.fatal THEN {c}
              ELSE { AlsoEntered(o, c.entered) :
                     o \in flattenRange(c.h, errors, rest, delimiter, visited,
                                        MergeChild(errorMap, key, delimiter, c.m)) }
              : c \in flatten(h, GetTree(err).tree, delimiter, visited) }
       ELSE flattenRange(h, errors, rest, delimiter, visited, Put(errorMap, key, err))
    : key \in remaining }

\* SortStrings with the comparison turned round: descending order.
RECURSIVE SortStringsDescending(_)
SortStringsDescending(S) ==
  IF S = {} THEN << >>
  ELSE LET greatest == CHOOSE x \in S : \A y \in S \ {x} : StrLess(y, x)
       IN <<greatest>> \o SortStringsDescending(S \ {greatest})

\* sort.Strings over the keys of a map: the keys in ascending order.
RECURSIVE SortStrings(_)
SortStrings(S) ==
  IF S = {} THEN << >>
  ELSE LET least == CHOOSE x \in S : \A y \in S \ {x} : StrLess(x, y)
       IN <<least>> \o SortStrings(S \ {least})

\* Flatten(err)
Flatten(err) ==
  LET g == GetTree(err)
      c == Call("Flatten", err, << >>, << >>, Nil)
  IN /\ last = Idle
     /\ ops' = ops
     /\ IF ~g.isTree
        THEN /\ last' = [c EXCEPT !.isNil = TRUE]
             /\ heap' = heap
        ELSE LET h1 == getDelimiter(heap, g.tree)
             IN \E o \in flatten(h1, g.tree, h1[g.tree].Delimiter, << >>) :
                  /\ heap' = o.h
                  /\ last' = [c EXCEPT !.flat = o.m, !.fatal = o.fatal,
                                       !.entered = o.entered]

\* Keys(err)
Keys(err) ==
  LET g == GetTree(err)
      c == Call("Keys", err, << >>, << >>, Nil)
  IN /\ last = Idle
     /\ ops' = ops
     /\ IF ~g.isTree
        THEN /\ last' = [c EXCEPT !.isNil = TRUE]
             /\ heap' = heap
        ELSE LET h1 == getDelimiter(heap, g.tree)
             IN \E o \in flatten(h1, g.tree, h1[g.tree].Delimiter, << >>) :
                  /\ heap' = o.h
                  /\ last' = [c EXCEPT !.flat = o.m, !.fatal = o.fatal,
                                       !.keys = IF o.fatal THEN << >>
                                                ELSE SortStrings(DOMAIN o.m)]

RECURSIVE get(_, _, _, _, _)

\* get falling back to the child whatever returnAnyChild says.
getIgnoringFlag(h, tree, returnAnyChild, key, path) ==
  LET h1 == getErrors(h, tree)
      errors == h1[tree].Errors
  IN IF key \notin DOMAIN errors THEN [h |-> h1, ret |-> Nil]
     ELSE IF Len(path) = 0 THEN [h |-> h1, ret |-> errors[key]]
     ELSE LET child == errors[key]
              g == GetTree(child)
          IN IF ~g.isTree THEN [h |-> h1, ret |-> child]
             ELSE LET r == get(h1, g.tree, returnAnyChild, Head(path), Tail(path))
                  IN IF r.ret = Nil THEN [h |-> r.h, ret |-> child] ELSE r

\* get without the fallback to the child when the nested lookup finds nothing.
getWithoutFallback(h, tree, returnAnyChild, key, path) ==
  LET h1 == getErrors(h, tree)
      errors == h1[tree].Errors
  IN IF key \notin DOMAIN errors THEN [h |-> h1, ret |-> Nil]
     ELSE IF Len(path) = 0 THEN [h |-> h1, ret |-> errors[key]]
     ELSE LET child == errors[key]
              g == GetTree(child)
          IN IF ~g.isTree /\ returnAnyChild THEN [h |-> h1, ret |-> child]
             ELSE IF ~g.isTree THEN [h |-> h1, ret |-> Nil]
             ELSE get(h1, g.tree, returnAnyChild, Head(path), Tail(path))

\* get(tree, returnAnyChild, key, path...): the heap it leaves and its result.
get(h, tree, returnAnyChild, key, path) ==
  LET h1 == getErrors(h, tree)
      errors == h1[tree].Errors
  IN IF key \notin DOMAIN errors THEN [h |-> h1, ret |-> Nil]
     ELSE IF Len(path) = 0 THEN [h |-> h1, ret |-> errors[key]]
     ELSE LET child == errors[key]
              g == GetTree(child)
          IN IF ~g.isTree /\ returnAnyChild THEN [h |-> h1, ret |-> child]
             ELSE IF ~g.isTree THEN [h |-> h1, ret |-> Nil]
             ELSE LET r == get(h1, g.tree, returnAnyChild, Head(path), Tail(path))
                  IN IF r.ret = Nil /\ returnAnyChild
                     THEN [h |-> r.h, ret |-> child]
                     ELSE r

\* The variadic path arguments callers pass.
Paths == UNION {[1..n -> KeyUniverse] : n \in 0..MaxPath}

\* Get(err, key, path...)
Get(err, key, path) ==
  LET g == GetTree(err)
      c == Call("Get", err, key, path, Nil)
  IN /\ last = Idle
     /\ ops' = ops
     /\ IF ~g.isTree
        THEN /\ last' = c
             /\ heap' = heap
        ELSE LET r == get(heap, g.tree, FALSE, key, path)
             IN /\ heap' = r.h
                /\ last' = [c EXCEPT !.ret = r.ret]

\* GetAny(err, key, path...)
GetAny(err, key, path) ==
  LET g == GetTree(err)
      c == Call("GetAny", err, key, path, Nil)
  IN /\ last = Idle
     /\ ops' = ops
     /\ IF ~g.isTree
        THEN /\ last' = [c EXCEPT !.ret = err]
             /\ heap' = heap
        ELSE LET r == get(heap, g.tree, TRUE, key, path)
             IN /\ heap' = r.h
                /\ last' = [c EXCEPT !.ret = r.ret]

\* --------------------------------------------------------------- formatter

\* strconv's decimal rendering of a non-negative int (fmt's %d).
RECURSIVE Itoa(_)
Itoa(n) ==
  LET digit == <<"0", "1", "2", "3", "4", "5", "6", "7", "8", "9">>[(n % 10) + 1]
  IN IF n < 10 THEN <<digit>> ELSE Itoa(n \div 10) \o <<digit>>

\* strings.Join(lines, sep)
RECURSIVE StringsJoin(_, _)
StringsJoin(lines, sep) ==
  IF Len(lines) = 0 THEN << >>
  ELSE IF Len(lines) = 1 THEN lines[1]
  ELSE lines[1] \o sep \o StringsJoin(Tail(lines), sep)

\* SimpleFormatter with the plural suffix added only for more than one entry.
SimpleFormatterPluralAboveOne(errorMap) ==
  LET n == Cardinality(DOMAIN errorMap)
      pluralSuffix == IF n > 1 THEN <<"s">> ELSE << >>
      keys == SortStrings(DOMAIN errorMap)
      wrappedErrors == [i \in 1..n |->
         <<"*", " ">> \o keys[i] \o <<":", " ">> \o Message(errorMap[keys[i]])]
  IN Itoa(n) \o <<" ", "e", "r", "r", "o", "r">> \o pluralSuffix
       \o <<" ", "o", "c", "c", "u", "r", "r", "e", "d", ":", "\n", "\n">>
       \o StringsJoin(wrappedErrors, <<"\n">>)

\* SimpleFormatter(errorMap)
SimpleFormatter(errorMap) ==
  LET n == Cardinality(DOMAIN errorMap)
      pluralSuffix == IF n # 1 THEN <<"s">> ELSE << >>
      keys == SortStrings(DOMAIN errorMap)
      wrappedErrors == [i \in 1..n |->
         <<"*", " ">> \o keys[i] \o <<":", " ">> \o Message(errorMap[keys[i]])]
  IN Itoa(n) \o <<" ", "e", "r", "r", "o", "r">> \o pluralSuffix
       \o <<" ", "o", "c", "c", "u", "r", "r", "e", "d", ":", "\n", "\n">>
       \o StringsJoin(wrappedErrors, <<"\n">>)

\* (*Tree).Error() on receiver t (Nil: a nil receiver).
Error(t) ==
  LET c == Call("Error", t, << >>, << >>, Nil)
  IN /\ last = Idle
     /\ ops' = ops
     /\ IF t = Nil
        THEN /\ last' = c
             /\ heap' = heap
        ELSE LET h1 == getFormatter(heap, t.id)
                 h2 == getDelimiter(h1, t.id)
             IN \E o \in flatten(h2, t.id, h2[t.id].Delimiter, << >>) :
                  /\ heap' = o.h
                  /\ last' = [c EXCEPT !.flat = o.m, !.fatal = o.fatal,
                                       !.text = IF o.fatal THEN << >>
                                                ELSE SimpleFormatter(o.m)]

\* ErrorOrNil with emptiness judged on the flattened leaves instead of the
\* immediate children.
ErrorOrNilByLeaves(t) ==
  LET c == Call("ErrorOrNil", t, << >>, << >>, Nil)
  IN /\ last = Idle
     /\ ops' = ops
     /\ heap' = heap
     /\ last' = [c EXCEPT !.ret =
          IF t = Nil THEN Nil
          ELSE IF \A o \in flatten(heap, t.id, DefaultDelimiter, << >>) : o.m = EmptyMap
               THEN Nil ELSE t]

\* (*Tree).ErrorOrNil() on receiver t (Nil: a nil receiver). It reads t.Errors
\* directly: len of a nil map is 0 and nothing is allocated.
ErrorOrNil(t) ==
  LET c == Call("ErrorOrNil", t, << >>, << >>, Nil)
  IN /\ last = Idle
     /\ ops' = ops
     /\ heap' = heap
     /\ last' = [c EXCEPT !.ret =
          IF t = Nil \/ Cardinality(DOMAIN heap[t.id].Errors) = 0 THEN Nil ELSE t]


\* ------------------------------------------------- vocabulary of the claims

\* The tree a call was made on, when its first argument is a tree.
OnTree(c) == c.arg.kind = "tree"

\* Every sequence of up to n keys.
KeySeqs(n) == UNION {[1..m -> KeyUniverse] : m \in 1..n}

\* p, a sequence of keys, can be followed from tree t through the trees ts:
\* each key is an entry of the tree reached so far, and each value before
\* the last is the next tree.
Follows(h, t, p, ts) ==
  /\ ts[1] = t
  /\ \A i \in 1..Len(p) :
       /\ p[i] \in DOMAIN h[ts[i]].Errors
       /\ i < Len(p) => h[ts[i]].Errors[p[i]] = TreeV(ts[i + 1])

Followable(h, t, p) == \E ts \in [1..Len(p) -> 1..Len(h)] : Follows(h, t, p, ts)

\* The value stored at the end of a followable p.
ValueAt(h, t, p) ==
  LET ts == CHOOSE x \in [1..Len(p) -> 1..Len(h)] : Follows(h, t, p, x)
  IN h[ts[Len(p)]].Errors[p[Len(p)]]

\* p leads from t to a leaf error and enters no tree twice: its first key is
\* an entry of t, a tree not among those seen on the way, and that entry is a
\* leaf error when p ends there, a tree from which the rest of p leads on
\* otherwise.
RECURSIVE LeadsToLeaf(_, _, _, _)
LeadsToLeaf(h, t, p, seen) ==
  /\ t \notin seen
  /\ p[1] \in DOMAIN h[t].Errors
  /\ LET v == h[t].Errors[p[1]]
     IN IF Len(p) = 1 THEN v.kind = "leaf"
        ELSE v.kind = "tree" /\ LeadsToLeaf(h, v.id, Tail(p), seen \cup {t})

IsLeafPath(h, t, p) == LeadsToLeaf(h, t, p, {})

LeafPaths(h, t) == {p \in KeySeqs(Len(h)) : IsLeafPath(h, t, p)}

\* The keys of p joined by d.
RECURSIVE JoinPath(_, _)
JoinPath(p, d) ==
  IF Len(p) = 1 THEN p[1] ELSE p[1] \o d \o JoinPath(Tail(p), d)

\* The delimiter a traversal of t uses: t's own, ":" when that is empty.
EffectiveDelimiter(h, t) ==
  IF h[t].Delimiter = << >> THEN <<":">> ELSE h[t].Delimiter

\* The entries of a map whose values are leaf errors.
LeafEntries(m) ==
  LET ks == {k \in DOMAIN m : m[k].kind = "leaf"} IN [k \in ks |-> m[k]]

\* Two heaps hold the same trees with the same children, delimiters and formatters.
SameTrees(h1, h2) ==
  /\ Len(h1) = Len(h2)
  /\ \A t \in 1..Len(h1) :
       /\ h1[t].Errors = h2[t].Errors
       /\ h1[t].Delimiter = h2[t].Delimiter
       /\ h1[t].Formatter = h2[t].Formatter

\* -------------------------------------------------------------------- next

Next ==
  \/ \E parent \in Values, key \in KeyUniverse, err \in Values : Set(parent, key, err)
  \/ \E parent \in Values, key \in KeyUniverse, err \in Values : Add(parent, key, err)
  \/ NewTree
  \/ \E d \in Delimiters : Literal(d)
  \/ \E err \in Values : Flatten(err)
  \/ \E err \in Values : Keys(err)
  \/ \E t \in {Nil} \cup {TreeV(x) : x \in Trees} : Error(t)
  \/ \E err \in Values, key \in KeyUniverse, path \in Paths : Get(err, key, path)
  \/ \E err \in Values, key \in KeyUniverse, path \in Paths : GetAny(err, key, path)
  \/ \E t \in {Nil} \cup {TreeV(x) : x \in Trees} : ErrorOrNil(t)
  \/ Return

Spec == Init /\ [][Next]_vars

\* The calls that build and change trees, on their own.
NextMutation ==
  \/ \E parent \in Values, key \in KeyUniverse, err \in Values : Set(parent, key, err)
  \/ \E parent \in Values, key \in KeyUniverse, err \in Values : Add(parent, key, err)
  \/ NewTree
  \/ \E d \in Delimiters : Literal(d)
  \/ Return

SpecMutation == Init /\ [][NextMutation]_vars

\* The calls that build and change trees, and the traversals of them.
NextTraversal ==
  \/ \E parent \in Values, key \in KeyUniverse, err \in Values : Set(parent, key, err)
  \/ \E parent \in Values, key \in KeyUniverse, err \in Values : Add(parent, key, err)
  \/ NewTree
  \/ \E d \in Delimiters : Literal(d)
  \/ \E err \in Values : Flatten(err)
  \/ \E err \in Values : Keys(err)
  \/ \E t \in {Nil} \cup {TreeV(x) : x \in Trees} : Error(t)
  \/ Return

SpecTraversal == Init /\ [][NextTraversal]_vars

\* Trees built with Set from nothing and from Tree literals, and the lookups in
\* them. get reads only the children of a tree, which Set alone can make any
\* map, and whether the map is allocated, which the literal leaves false.
NextLookup ==
  \/ \E parent \in Values, key \in KeyUniverse, err \in Values : Set(parent, key, err)
  \/ Literal(<< >>)
  \/ \E err \in Values, key \in KeyUniverse, path \in Paths : Get(err, key, path)
  \/ \E err \in Values, key \in KeyUniverse, path \in Paths : GetAny(err, key, path)
  \/ Return

SpecLookup == Init /\ [][NextLookup]_vars

\* The calls that build and change trees, and ErrorOrNil on them.
NextErrorOrNil ==
  \/ \E parent \in Values, key \in KeyUniverse, err \in Values : Set(parent, key, err)
  \/ \E parent \in Values, key \in KeyUniverse, err \in Values : Add(parent, key, err)
  \/ NewTree
  \/ \E d \in Delimiters : Literal(d)
  \/ \E t \in {Nil} \cup {TreeV(x) : x \in Trees} : ErrorOrNil(t)
  \/ Return

SpecErrorOrNil == Init /\ [][NextErrorOrNil]_vars

\* SimpleFormatter called directly, as a Formatter is: the keys and the maps a
\* caller hands it. The keys hold the empty string, a key that is a prefix of
\* others and keys with the delimiter in them; the values are leaf errors.
FormatterKeys == KeyUniverse \cup {<< >>, <<"b">>, <<"a", ":", "b">>}

ErrorMaps == UNION {[S -> {Leaf(i) : i \in LeafIds}] : S \in SUBSET FormatterKeys}

\* A caller holds a map it is about to format.
InitFormatter ==
  /\ heap = << >>
  /\ ops = 0
  /\ last \in {[Call("errorMap", Nil, << >>, << >>, Nil) EXCEPT !.flat = m] : m \in ErrorMaps}

\* The call SimpleFormatter(errorMap) on the map held.
Format ==
  /\ last.op = "errorMap"
  /\ last' = [Call("SimpleFormatter", Nil, << >>, << >>, Nil)
                EXCEPT !.flat = last.flat, !.text = SimpleFormatter(last.flat)]
  /\ UNCHANGED <<heap, ops>>

NextFormatter == Format

SpecFormatter == InitFormatter /\ [][NextFormatter]_vars

\* ------------------------------------------------------------------ claims

\* C1 (as the claim states it). Set is create-or-replace. With a tree parent
\* and a non-nil err it returns the parent; the parent's children are the old
\* ones with key mapped to err, every other key, the delimiter, the formatter
\* and every other tree unchanged.
C1_SetOnTree ==
  (last'.op = "Set" /\ last'.arg.kind = "tree" /\ last'.err # Nil) =>
    LET t == last'.arg.id
        key == last'.key
    IN /\ last'.panic = NoPanic
       /\ last'.ret = last'.arg
       /\ Len(heap') = Len(heap)
       /\ DOMAIN heap'[t].Errors = (DOMAIN heap[t].Errors) \cup {key}
       /\ heap'[t].Errors[key] = last'.err
       /\ \A k \in (DOMAIN heap[t].Errors) \ {key} :
            heap'[t].Errors[k] = heap[t].Errors[k]
       /\ key \in DOMAIN heap[t].Errors =>
            Cardinality(DOMAIN heap'[t].Errors) = Cardinality(DOMAIN heap[t].Errors)
       /\ heap'[t].Delimiter = heap[t].Delimiter
       /\ heap'[t].Formatter = heap[t].Formatter
       /\ \A u \in 1..Len(heap) : u # t => heap'[u] = heap[u]

\* With an absent parent and a non-nil err, Set returns a freshly allocated
\* tree with delimiter ":" and the default formatter whose children are
\* exactly {key: err}.
C1_SetOnNil ==
  (last'.op = "Set" /\ last'.arg = Nil /\ last'.err # Nil) =>
    LET n == Len(heap) + 1
    IN /\ last'.panic = NoPanic
       /\ Len(heap') = n
       /\ last'.ret = TreeV(n)
       /\ heap'[n].Delimiter = <<":">>
       /\ heap'[n].Formatter = SimpleFormatterRef
       /\ heap'[n].Errors = (last'.key :> last'.err)
       /\ \A u \in 1..Len(heap) : heap'[u] = heap[u]

\* Flatten of the tree Set has just allocated is {key: err}.
FlattenOfNewIsEntry ==
  \A o \in flatten(heap', Len(heap'), <<":">>, << >>) :
    ~o.fatal /\ o.m = (last'.key :> last'.err)

\* C1, original: ... so its Flatten is {key: err}, for every non-absent err.
C1_Original ==
  [][/\ C1_SetOnTree
     /\ C1_SetOnNil
     /\ (last'.op = "Set" /\ last'.arg = Nil /\ last'.err # Nil) => FlattenOfNewIsEntry]_vars

\* C1, amended: Set is create-or-replace as above; the tree it allocates for
\* an absent parent has children {key: err}, and its Flatten is {key: err}
\* when err is a leaf error (a tree err is flattened into its own leaves).
C1_SetCreateOrReplace ==
  [][/\ C1_SetOnTree
     /\ C1_SetOnNil
     /\ (last'.op = "Set" /\ last'.arg = Nil /\ last'.err.kind = "leaf") => FlattenOfNewIsEntry]_vars

\* C1 witness: Set has stored a key in a tree that holds another key as well,
\* and Set has allocated a tree for an absent parent.
C1_Witness ==
  /\ last.op = "Set"
  /\ last.arg.kind = "tree"
  /\ last.err # Nil
  /\ Cardinality(DOMAIN heap[last.arg.id].Errors) >= 2
  /\ \E t \in Trees : t # last.arg.id /\ DOMAIN heap[t].Errors # {}

\* C2. Add on a tree parent panics with "Cannot add error: key <key> exists."
\* exactly when key is an entry of the parent's own children, whatever its
\* descendants hold; a panicking Add returns nothing and leaves the parent's
\* children as they were.
C2_AddPanicsOnDuplicate ==
  [][(last'.op = "Add" /\ last'.arg.kind = "tree") =>
       LET t == last'.arg.id
       IN /\ (last'.panic = AddPanic(last'.key)) <=> (last'.key \in DOMAIN heap[t].Errors)
          /\ last'.panic \in {NoPanic, AddPanic(last'.key)}
          /\ last'.panic # NoPanic =>
               /\ heap'[t].Errors = heap[t].Errors
               /\ SameTrees(heap, heap')
               /\ last'.ret = Nil]_vars

\* C2 witness: Add has panicked on a key its parent already held.
C2_Witness ==
  /\ last.op = "Add"
  /\ last.arg.kind = "tree"
  /\ last.panic = AddPanic(last.key)
  /\ last.key \in DOMAIN heap[last.arg.id].Errors

\* C3. Set and Add with a parent that is present and is not a tree, and a
\* non-nil err, panic with "Cannot set error: not an *errortree.Tree." and
\* return nothing.
C3_NonTreeParentPanics ==
  (last.op \in {"Set", "Add"} /\ last.arg.kind = "leaf" /\ last.err # Nil) =>
    (last.panic = SetPanic /\ last.ret = Nil)

\* Whether Add is called on a tree that already holds key.
AddOnHeldKey(c, h) ==
  c.op = "Add" /\ c.arg.kind = "tree" /\ c.key \in DOMAIN h[c.arg.id].Errors

\* C4, original: Set and Add with a nil err (Add not on a held key) end
\* normally and return parent, for every parent, and change no tree.
C4_Original ==
  [][(last'.op \in {"Set", "Add"} /\ last'.err = Nil /\ ~AddOnHeldKey(last', heap)) =>
       /\ last'.panic = NoPanic
       /\ last'.ret = last'.arg
       /\ SameTrees(heap, heap')]_vars

\* C4, amended: with a nil err and a parent that is absent or a tree (Add not
\* on a held key), Set and Add end normally, return parent, allocate no tree
\* and leave every tree's children, delimiter and formatter as they were;
\* Set with a non-tree parent panics as it does for a non-nil err.
C4_NilErrIsNoOp ==
  [][/\ (/\ last'.op \in {"Set", "Add"}
         /\ last'.err = Nil
         /\ last'.arg.kind \in {"nil", "tree"}
         /\ ~AddOnHeldKey(last', heap)) =>
           /\ last'.panic = NoPanic
           /\ last'.ret = last'.arg
           /\ SameTrees(heap, heap')
     /\ (last'.op = "Set" /\ last'.err = Nil /\ last'.arg.kind = "leaf") =>
           /\ last'.panic = SetPanic
           /\ SameTrees(heap, heap')]_vars

\* C4 witness: Add with a nil err has returned its tree parent.
C4_Witness ==
  /\ last.op = "Add"
  /\ last.err = Nil
  /\ last.arg.kind = "tree"
  /\ last.ret = last.arg
  /\ last.panic = NoPanic

\* The calls that flatten a tree.
Traversals == {"Flatten", "Keys", "Error"}

\* C5. Flatten returns exactly one entry for each leaf occurrence: for each
\* path of keys from the root to a leaf error that enters no tree twice, the
\* path's keys joined by the delimiter map to that leaf, and there are as many
\* entries as paths.
C5_FlattenOneEntryPerLeaf ==
  (last.op = "Flatten" /\ OnTree(last) /\ ~last.fatal) =>
    LET t == last.arg.id
        d == heap[t].Delimiter
        P == LeafPaths(heap, t)
    IN /\ ~last.isNil
       /\ DOMAIN last.flat = {JoinPath(p, d) : p \in P}
       /\ \A p \in P : last.flat[JoinPath(p, d)] = ValueAt(heap, t, p)
       /\ Cardinality(DOMAIN last.flat) = Cardinality(P)

\* Every tree child of t leads straight back: it is t itself, or a tree whose
\* children are all t or that tree.
OnlyBackReferences(h, t) ==
  \A k \in DOMAIN h[t].Errors :
    LET v == h[t].Errors[k]
    IN v.kind = "tree" =>
         \/ v.id = t
         \/ \A k2 \in DOMAIN h[v.id].Errors :
              h[v.id].Errors[k2] \in {TreeV(t), TreeV(v.id)}

\* C6. Flatten, Keys and Error return on every child graph, cyclic ones
\* included, and a child that leads back to a tree already entered adds no
\* entry: when the tree children of t only lead back, the result is t's own
\* leaf entries (for {a: E, b: t} and {a: E, b: {c: t}} it is {a: E}).
C6_FlattenTerminates ==
  (last.op \in Traversals /\ OnTree(last)) =>
    /\ ~last.fatal
    /\ OnlyBackReferences(heap, last.arg.id) =>
         last.flat = LeafEntries(heap[last.arg.id].Errors)

\* C6 witness: Flatten has returned {a: E}-like leaf entries for a tree one of
\* whose children is another tree that holds the first as a child.
C6_Witness ==
  /\ last.op = "Flatten"
  /\ OnTree(last)
  /\ ~last.fatal
  /\ OnlyBackReferences(heap, last.arg.id)
  /\ last.flat # EmptyMap
  /\ last.flat = LeafEntries(heap[last.arg.id].Errors)
  /\ \E k \in DOMAIN heap[last.arg.id].Errors :
       LET v == heap[last.arg.id].Errors[k]
       IN /\ v.kind = "tree"
          /\ v.id # last.arg.id
          /\ \E k2 \in DOMAIN heap[v.id].Errors : heap[v.id].Errors[k2] = last.arg

\* The strings of a sequence.
Range(q) == {q[i] : i \in 1..Len(q)}

\* C7. In Flatten(t), Keys(t) and t.Error() the produced keys are the leaf
\* paths of t joined, at every depth, by the delimiter of t (":" when t's is
\* empty), whatever delimiters the nested trees carry; the traversal leaves
\* the Delimiter field of every other tree as it was.
C7_OneDelimiter ==
  [][(last'.op \in Traversals /\ last'.arg.kind = "tree") =>
       LET t == last'.arg.id
           d == EffectiveDelimiter(heap, t)
           joined == {JoinPath(p, d) : p \in LeafPaths(heap, t)}
       IN /\ ~last'.fatal
          /\ DOMAIN last'.flat = joined
          /\ last'.op = "Keys" => Range(last'.keys) = joined
          /\ last'.op = "Error" => last'.text = SimpleFormatter(last'.flat)
          /\ Len(heap') = Len(heap)
          /\ \A u \in 1..Len(heap) : u # t => heap'[u].Delimiter = heap[u].Delimiter]_vars

\* C7 witness: a traversal has produced a joined key for a tree with a nested
\* tree whose delimiter differs from its own.
C7_Witness ==
  /\ last.op \in Traversals
  /\ OnTree(last)
  /\ \E k \in DOMAIN heap[last.arg.id].Errors :
       LET v == heap[last.arg.id].Errors[k]
       IN /\ v.kind = "tree"
          /\ v.id # last.arg.id
          /\ heap[v.id].Delimiter # << >>
          /\ heap[v.id].Delimiter # heap[last.arg.id].Delimiter
          /\ \E k2 \in DOMAIN heap[v.id].Errors :
               /\ heap[v.id].Errors[k2].kind = "leaf"
               /\ JoinKey(k, heap[last.arg.id].Delimiter, k2) \in DOMAIN last.flat

\* C8. Get returns nil for a non-tree err; for a tree it returns the value at
\* the end of the path key, path... when the whole path can be followed (each
\* key present, each value before the last a tree), and nil otherwise, never
\* the value of a shorter prefix.
C8_GetStrict ==
  (last.op = "Get") =>
    /\ last.panic = NoPanic
    /\ IF ~OnTree(last) THEN last.ret = Nil
       ELSE LET p == <<last.key>> \o last.path
            IN IF Followable(heap, last.arg.id, p)
               THEN last.ret = ValueAt(heap, last.arg.id, p)
               ELSE last.ret = Nil

\* C8 witness: Get has followed a path of two or more keys to a value.
C8_Witness ==
  /\ last.op = "Get"
  /\ OnTree(last)
  /\ Len(last.path) >= 1
  /\ last.ret # Nil

\* The longest prefix of p that can be followed from t (0: none).
LongestPrefix(h, t, p) ==
  LET J == {j \in 1..Len(p) : Followable(h, t, SubSeq(p, 1, j))}
  IN IF J = {} THEN 0 ELSE CHOOSE j \in J : \A i \in J : i <= j

\* C9. GetAny returns err itself for a non-tree err; for a tree it returns nil
\* exactly when the first key is missing at the top level, and otherwise the
\* value at the longest prefix of the path that can be followed. Whenever Get
\* finds a value for the same arguments, GetAny returns that value.
C9_GetAnyMostSpecific ==
  (last.op = "GetAny") =>
    /\ last.panic = NoPanic
    /\ IF ~OnTree(last) THEN last.ret = last.arg
       ELSE LET t == last.arg.id
                p == <<last.key>> \o last.path
                j == LongestPrefix(heap, t, p)
                strict == get(heap, t, FALSE, last.key, last.path).ret
            IN /\ (last.ret = Nil) <=> (last.key \notin DOMAIN heap[t].Errors)
               /\ j = 0 => last.ret = Nil
               /\ j > 0 => last.ret = ValueAt(heap, t, SubSeq(p, 1, j))
               /\ strict # Nil => last.ret = strict

\* C9 witness: GetAny has returned the sub-tree under key because that
\* sub-tree lacks the next key of the path.
C9_Witness ==
  /\ last.op = "GetAny"
  /\ OnTree(last)
  /\ Len(last.path) >= 1
  /\ last.ret.kind = "tree"
  /\ last.key \in DOMAIN heap[last.arg.id].Errors
  /\ last.ret = heap[last.arg.id].Errors[last.key]
  /\ last.path[1] \notin DOMAIN heap[last.ret.id].Errors

\* C10. Keys of a non-tree error is nil; Keys of a tree lists exactly the keys
\* of Flatten of that tree, each once, in strictly ascending order (the
\* bytewise order of sort.Strings).
C10_KeysSortedFlattenKeys ==
  (last.op = "Keys") =>
    IF ~OnTree(last) THEN last.isNil /\ last.keys = << >>
    ELSE LET t == last.arg.id
         IN /\ ~last.isNil
            /\ ~last.fatal
            /\ \A i \in 1..(Len(last.keys) - 1) : StrLess(last.keys[i], last.keys[i + 1])
            /\ \A o \in flatten(heap, t, heap[t].Delimiter, << >>) :
                 /\ Range(last.keys) = DOMAIN o.m
                 /\ Len(last.keys) = Cardinality(DOMAIN o.m)

\* C10 witness: Keys has listed two or more keys, one of them a joined path.
C10_Witness ==
  /\ last.op = "Keys"
  /\ OnTree(last)
  /\ Len(last.keys) >= 2
  /\ \E i \in 1..Len(last.keys) : last.keys[i] \notin KeyUniverse

\* A tree with entries, each of them a sub-tree that is empty or is a
\* reference back to the tree itself.
Hollow(h, t) ==
  /\ DOMAIN h[t].Errors # {}
  /\ \A k \in DOMAIN h[t].Errors :
       LET v == h[t].Errors[k]
       IN v.kind = "tree" /\ (v.id = t \/ DOMAIN h[v.id].Errors = {})

\* C11. ErrorOrNil returns nil exactly when the receiver is nil or the tree
\* has no immediate entries, and the receiver itself otherwise. A tree whose
\* only entries are empty or back-referencing sub-trees is returned, although
\* every Flatten of it is empty.
C11_ErrorOrNilImmediate ==
  last.op = "ErrorOrNil" =>
    /\ (last.ret = Nil) <=>
         (last.arg = Nil \/ DOMAIN heap[last.arg.id].Errors = {})
    /\ last.ret # Nil => last.ret = last.arg
    /\ (last.arg # Nil /\ Hollow(heap, last.arg.id)) =>
         /\ last.ret = last.arg
         /\ \A o \in flatten(heap, last.arg.id,
                              EffectiveDelimiter(heap, last.arg.id), << >>) :
              ~o.fatal /\ o.m = EmptyMap

\* C11 witness: ErrorOrNil has returned a tree whose entries are all empty or
\* back-referencing sub-trees, one of them a reference back to the tree itself.
C11_Witness ==
  /\ last.op = "ErrorOrNil"
  /\ last.arg # Nil
  /\ last.ret = last.arg
  /\ Hollow(heap, last.arg.id)
  /\ \E k \in DOMAIN heap[last.arg.id].Errors :
       heap[last.arg.id].Errors[k] = last.arg

\* The lines of a text: its pieces between newlines.
RECURSIVE SplitLines(_)
SplitLines(s) ==
  IF \A i \in 1..Len(s) : s[i] # "\n" THEN <<s>>
  ELSE LET i == CHOOSE x \in 1..Len(s) :
                  s[x] = "\n" /\ \A y \in 1..(x - 1) : s[y] # "\n"
       IN <<SubSeq(s, 1, i - 1)>> \o SplitLines(SubSeq(s, i + 1, Len(s)))

\* The header for n entries, n a single digit.
Header(n) ==
  <<(<<"0", "1", "2", "3", "4", "5", "6", "7", "8", "9">>)[n + 1]>>
    \o <<" ", "e", "r", "r", "o", "r">>
    \o (IF n = 1 THEN << >> ELSE <<"s">>)
    \o <<" ", "o", "c", "c", "u", "r", "r", "e", "d", ":">>

\* C12. For a map of N entries the text of SimpleFormatter is the header
\* "<N> error occurred:" when N = 1 and "<N> errors occurred:" otherwise, a
\* blank line, and then exactly N lines "* <path>: <message>", one per entry,
\* the paths strictly ascending whatever the messages are. The text is a
\* function of the map, so nothing else is left to vary.
C12_SimpleFormatterText ==
  last.op = "SimpleFormatter" =>
    LET m == last.flat
        n == Cardinality(DOMAIN m)
        lines == SplitLines(last.text)
    IN /\ Len(lines) >= 3
       /\ lines[1] = Header(n)
       /\ lines[2] = << >>
       /\ IF n = 0 THEN lines = <<Header(0), << >>, << >> >>
          ELSE /\ Len(lines) = n + 2
               /\ \E ks \in [1..n -> DOMAIN m] :
                    /\ \A i \in 1..(n - 1) : StrLess(ks[i], ks[i + 1])
                    /\ \A i \in 1..n :
                         lines[i + 2] = <<"*", " ">> \o ks[i] \o <<":", " ">>
                                          \o Message(m[ks[i]])

\* C12 witness: a map of three entries or more has been formatted, and the
\* order of its paths is not the order of its messages.
C12_Witness ==
  /\ last.op = "SimpleFormatter"
  /\ Cardinality(DOMAIN last.flat) >= 3
  /\ \E j, k \in DOMAIN last.flat :
       /\ StrLess(j, k)
       /\ StrLess(Message(last.flat[k]), Message(last.flat[j]))

\* The read traversals.
ReadTraversals == {"Flatten", "Keys", "Get", "GetAny"}

\* C13 (as the claim states it). Flatten, Keys, Get and GetAny write no field
\* of any tree: the children, the delimiter and the formatter of every tree
\* are after the call what they were before it, for a tree whose fields are
\* still unset as for any other. (Two such calls on one tree then have no
\* conflicting accesses; a call that writes a field conflicts with any other
\* call that reads or writes it.)
C13_ReadsArePure ==
  [][last'.op \in ReadTraversals => heap' = heap]_vars

\* p, a sequence of keys, leads from t to the tree u through trees only,
\* and no tree on the way, u included, is met twice.
RECURSIVE LeadsToTree(_, _, _, _, _)
LeadsToTree(h, t, p, seen, u) ==
  /\ t \notin seen
  /\ IF Len(p) = 0 THEN t = u
     ELSE /\ p[1] \in DOMAIN h[t].Errors
          /\ LET v == h[t].Errors[p[1]]
             IN v.kind = "tree" /\ LeadsToTree(h, v.id, Tail(p), seen \cup {t}, u)

\* The paths on which u is reached from t with no tree met twice.
EnterPaths(h, t, u) ==
  {p \in {<< >>} \cup KeySeqs(Len(h)) : LeadsToTree(h, t, p, {}, u)}

\* How often the last call has ranged over the children of u.
TimesEntered(u) == CopiesIn(u, last.entered)

\* C14 (as the claim states it). During one Flatten call no tree has its
\* children ranged over more than once, whatever the child graph: children
\* that lead back to an ancestor and children attached under two keys or two
\* parents alike.
C14_EnteredAtMostOnce ==
  (last.op = "Flatten" /\ OnTree(last)) =>
    \A u \in Trees : TimesEntered(u) <= 1

\* C14, amended. During one Flatten call a tree is not entered again while it
\* is being traversed: a child that leads back to a tree on the current path
\* is not ranged over. A tree is entered once for every path that reaches it
\* from the root without meeting a tree twice, so a child attached under two
\* keys or two parents is entered once per attachment.
C14_EnteredOncePerPath ==
  (last.op = "Flatten" /\ OnTree(last)) =>
    /\ ~last.fatal
    /\ \A u \in Trees :
         TimesEntered(u) = Cardinality(EnterPaths(heap, last.arg.id, u))

\* C14 witness: Flatten has entered twice a child attached under two keys of
\* the root.
C14_Witness ==
  /\ last.op = "Flatten"
  /\ OnTree(last)
  /\ \E u \in Trees :
       /\ u # last.arg.id
       /\ TimesEntered(u) = 2
       /\ \E j, k \in DOMAIN heap[last.arg.id].Errors :
            /\ j # k
            /\ heap[last.arg.id].Errors[j] = TreeV(u)
            /\ heap[last.arg.id].Errors[k] = TreeV(u)

\* C15. Whatever Set and Add calls have been made, with nil and non-nil err,
\* the failing ones included, no key of any tree maps to a nil error, and the
\* children of a tree are a mapping: every key it holds has one value, an
\* error a caller could pass.
C15_NoNilEntry ==
  \A t \in Trees :
    /\ heap[t].Errors \in [DOMAIN heap[t].Errors -> Values]
    /\ DOMAIN heap[t].Errors \subseteq KeyUniverse
    /\ \A k \in DOMAIN heap[t].Errors : heap[t].Errors[k] # Nil

\* C15 witness: Set has been called with a nil err and a key the tree holds,
\* has returned, and the key has kept its error.
C15_Witness ==
  /\ last.op = "Set"
  /\ last.panic = NoPanic
  /\ last.err = Nil
  /\ last.arg.kind = "tree"
  /\ last.key \in DOMAIN heap[last.arg.id].Errors

====
